---- MODULE Spec2Model ----
(***************************************************************************)
(* The WebSocket signalling relay of server/routes.ts: the clients Map,    *)
(* the per-connection clientId closure variable, and the message and close *)
(* handlers of every connection.  Each handler runs to completion (Node's  *)
(* event loop), so each is one action: ev is the event being handled with *)
(* the Map as the handler found it, sent the ws.send calls the handler     *)
(* made, in order.  When the handler returns (Return) both are emptied and *)
(* the next event is dispatched.  ws.send is modelled as the call it is:   *)
(* the pair (channel, JSON text); what the ws library does with the frame  *)
(* afterwards is outside this file.  declared, scen and requested are     *)
(* history variables: they record what happened and steer nothing.         *)
(***************************************************************************)
EXTENDS Integers, Sequences, FiniteSets, TLC

VARIABLES status, clientId, clients, sent, ev, declared, scen, requested

vars == <<status, clientId, clients, sent, ev, declared, scen, requested>>

(* ---------------------------- bounds ----------------------------------- *)
NConn == 2

Conns == 1..NConn

\* the outcomes of one generateId call: the value of Date.now() and the numerator of
\* Math.random() as a fraction of 36; both calls may fall in the same millisecond
Draws == {[now |-> 1, random |-> 0], [now |-> 1, random |-> 19]}

(* ------------------------- JavaScript values --------------------------- *)
Undef == "undefined"
Null == "null"

Digits36 == <<"0","1","2","3","4","5","6","7","8","9","a","b","c","d","e","f","g","h",
  "i","j","k","l","m","n","o","p","q","r","s","t","u","v","w","x","y","z">>

RECURSIVE Join(_)
Join(cs) == IF cs = <<>> THEN "" ELSE Head(cs) \o Join(Tail(cs))

\* Number.prototype.toString(36) of a positive integer, as its digit characters
RECURSIVE IntToString36(_)
IntToString36(n) ==
  IF n < 36 THEN <<Digits36[n + 1]>>
  ELSE Append(IntToString36(n \div 36), Digits36[(n % 36) + 1])

\* toString(36) of the fraction r/36 in [0,1): "0" for zero, else "0." and one digit
FracToString36(r) == IF r = 0 THEN <<"0">> ELSE <<"0", ".", Digits36[r + 1]>>

\* String.prototype.substr(start, length) on a character sequence (start is 0-based)
substr(s, start, length) ==
  IF start >= Len(s) THEN <<>>
  ELSE SubSeq(s, start + 1, IF start + length < Len(s) THEN start + length ELSE Len(s))

\* generateId with Date.now() = t and Math.random() = r/36
generateId(t, r) == Join(IntToString36(t) \o substr(FracToString36(r), 2, 9))

Ids == {generateId(d.now, d.random) : d \in Draws}

\* property access on a parsed object: a missing property reads as undefined
Field(obj, f) == IF f \in DOMAIN obj THEN obj[f] ELSE Undef

\* JSON.stringify of an object literal: properties whose value is undefined are omitted
JSONstringify(obj) == [f \in {g \in DOMAIN obj : obj[g] # Undef} |-> obj[f]]

\* a || b on strings: the empty string and undefined are falsy
OrElse(a, b) == IF a = Undef \/ a = "" THEN b ELSE a

(* --------------------------- the clients Map --------------------------- *)
\* a Map is its entries in insertion order
MapHas(m, k) == \E i \in 1..Len(m) : m[i].key = k

MapGet(m, k) == IF MapHas(m, k) THEN m[CHOOSE i \in 1..Len(m) : m[i].key = k].value ELSE Undef

MapSet(m, k, v) ==
  IF MapHas(m, k)
  THEN [i \in 1..Len(m) |-> IF m[i].key = k THEN [key |-> k, value |-> v] ELSE m[i]]
  ELSE Append(m, [key |-> k, value |-> v])

MapDelete(m, k) == SelectSeq(m, LAMBDA e : e.key # k)

MapValues(m) == [i \in 1..Len(m) |-> m[i].value]

MapKeys(m) == {m[i].key : i \in 1..Len(m)}

IsMonitor(c) == c.role = "monitor"

IsCamera(c) == c.role = "camera"

getMonitors(m) == SelectSeq(MapValues(m), IsMonitor)

getCameras(m) == SelectSeq(MapValues(m), IsCamera)

\* one ws.send call: the channel and the text handed to it
Send(ws, obj) == [to |-> ws, data |-> JSONstringify(obj)]

(* ------------------------------ inputs --------------------------------- *)
Payloads == {"X", "Y"}
FromIds == Ids
TargetIds == Ids \cup {Undef}

\* register frames: a named camera, a monitor without a name and one with an empty name,
\* and a role that is neither
RegisterMsgs ==
  { [type |-> "register", role |-> "camera", name |-> "Front"],
    [type |-> "register", role |-> "monitor"],
    [type |-> "register", role |-> "monitor", name |-> ""],
    [type |-> "register", role |-> "viewer"] }

\* offers with and without a cameraName
OfferBodies == {[offer |-> "X", cameraName |-> Undef], [offer |-> "Y", cameraName |-> "Front"]}

OfferMsgs ==
  {JSONstringify([type |-> "offer", targetId |-> tg, offer |-> b.offer, fromId |-> f,
                  cameraName |-> b.cameraName]) :
     tg \in TargetIds, f \in FromIds, b \in OfferBodies}

AnswerMsgs ==
  {JSONstringify([type |-> "answer", targetId |-> tg, answer |-> p, fromId |-> f]) :
     tg \in TargetIds, p \in Payloads, f \in FromIds}

IceMsgs ==
  {JSONstringify([type |-> "ice-candidate", targetId |-> tg, candidate |-> p, fromId |-> f]) :
     tg \in TargetIds, p \in Payloads, f \in FromIds}

\* messages no case of the switch matches: an unknown type, and no type at all
OtherMsgs == {[type |-> "ping"], [targetId |-> "1"]}

\* frames JSON.parse rejects, and the frame "null" whose msg.type access throws
BadFrames == {"{oops", "null"}

(* ------------------------------ state ---------------------------------- *)
NoMsg == [type |-> "none"]

Idle == [op |-> "idle", conn |-> 0, msg |-> NoMsg, before |-> <<>>, was |-> <<>>]

\* the event a handler is run for, with the Map and every connection's clientId as they
\* were when the handler started
Event(op, c, msg) == [op |-> op, conn |-> c, msg |-> msg, before |-> clients, was |-> clientId]

\* history: the role of a connection's latest register message
NotRegistered == "not-registered"

\* history: progress through the event sequence "a monitor registers on an empty Map,
\* a camera registers on another connection under another id, the camera sends
\* offer{targetId: monitor's id, offer: X, fromId: its own id}, the monitor's connection closes"
NoScen == [stage |-> 0, m |-> 0, c |-> 0]

Track(s, e, cid) ==
  IF e.op = "register" /\ Field(e.msg, "role") = "monitor" /\ e.before = <<>>
  THEN [stage |-> 1, m |-> e.conn, c |-> 0]
  ELSE IF /\ s.stage = 1 /\ e.op = "register" /\ Field(e.msg, "role") = "camera"
          /\ e.conn # s.m /\ cid[e.conn] # cid[s.m]
  THEN [stage |-> 2, m |-> s.m, c |-> e.conn]
  ELSE IF /\ s.stage = 2 /\ e.op = "offer" /\ e.conn = s.c
          /\ e.msg = [type |-> "offer", targetId |-> cid[s.m], offer |-> "X", fromId |-> cid[s.c]]
  THEN [s EXCEPT !.stage = 3]
  ELSE IF s.stage = 3 /\ e.op = "close" /\ e.conn = s.m
  THEN [s EXCEPT !.stage = 4]
  ELSE NoScen

\* history: for each pair (channel, monitorId) it watches, whether request-offer{monitorId}
\* was sent on the channel never, once or more than once.  Spec watches no pair;
\* SpecTally watches one pair, any of them
NoTally == [p \in {} |-> "never"]

NewTally(pairs) == [p \in pairs |-> "never"]

Asked(s, p) ==
  Len(SelectSeq(s, LAMBDA x : /\ x.data.type = "request-offer"
                              /\ x.to = p[1]
                              /\ x.data.monitorId = p[2]))

Tally(old, s) ==
  [p \in DOMAIN old |->
     IF Asked(s, p) = 0 THEN old[p]
     ELSE IF Asked(s, p) = 1 /\ old[p] = "never" THEN "once"
     ELSE "more"]

\* the server after registerRoutes: an empty Map and no connection yet
Start ==
  /\ declared = [c \in Conns |-> NotRegistered]
  /\ scen = NoScen
  /\ status = [c \in Conns |-> "none"]
  /\ clientId = [c \in Conns |-> Null]
  /\ clients = <<>>
  /\ sent = <<>>
  /\ ev = Idle

Init == Start /\ requested = NoTally

InitTally == Start /\ \E p \in Conns \X Ids : requested = NewTally({p})

\* wss.on("connection"): a new socket, its closure variable clientId is null
Connection(c) ==
  /\ ev = Idle
  /\ status[c] = "none"
  /\ status' = [status EXCEPT ![c] = "open"]
  /\ sent' = <<>>
  /\ ev' = Event("connection", c, NoMsg)
  /\ UNCHANGED declared
  /\ UNCHANGED <<clientId, clients>>
  /\ scen' = Track(scen, ev', clientId')
  /\ requested' = Tally(requested, sent')

\* variant: the last camera of the Map is left out of a registering monitor's fan-out
MonitorFanOut_SkipsLastCamera(m, id, role) ==
  IF role = "monitor"
  THEN LET cameras == getCameras(m)
       IN [i \in 1..(Len(cameras) - 1) |->
             Send(cameras[i].ws, [type |-> "request-offer", monitorId |-> id])]
  ELSE <<>>

\* the request-offer sends of a registering monitor: one per camera, on the camera's channel
MonitorFanOut(m, id, role) ==
  IF role = "monitor"
  THEN LET cameras == getCameras(m)
       IN [i \in 1..Len(cameras) |-> Send(cameras[i].ws, [type |-> "request-offer", monitorId |-> id])]
  ELSE <<>>

\* variant: the request-offers of a registering camera go out on the monitors' channels
CameraFanOut_OnMonitorChannels(m, ws, role) ==
  IF role = "camera"
  THEN LET monitors == getMonitors(m)
       IN [i \in 1..Len(monitors) |->
             Send(monitors[i].ws, [type |-> "request-offer", monitorId |-> monitors[i].id])]
  ELSE <<>>

\* the request-offer sends of a registering camera: one per monitor, on its own channel
CameraFanOut(m, ws, role) ==
  IF role = "camera"
  THEN LET monitors == getMonitors(m)
       IN [i \in 1..Len(monitors) |-> Send(ws, [type |-> "request-offer", monitorId |-> monitors[i].id])]
  ELSE <<>>

\* variant: the registered reply is sent after the request-offers instead of before
Register_RepliesLast(c, msg, t, r) ==
  /\ ev = Idle
  /\ status[c] = "open"
  /\ LET id == generateId(t, r)
         client == [id |-> id, role |-> Field(msg, "role"),
                    name |-> OrElse(Field(msg, "name"), "Unknown"), ws |-> c]
         after == MapSet(clients, id, client)
     IN /\ clientId' = [clientId EXCEPT ![c] = id]
        /\ clients' = after
        /\ sent' = MonitorFanOut(after, id, Field(msg, "role"))
                     \o CameraFanOut(after, c, Field(msg, "role"))
                     \o <<Send(c, [type |-> "registered", id |-> id])>>
  /\ ev' = Event("register", c, msg)
  /\ declared' = [declared EXCEPT ![c] = Field(msg, "role")]
  /\ UNCHANGED status
  /\ scen' = Track(scen, ev', clientId')
  /\ requested' = Tally(requested, sent')

\* case "register"
Register(c, msg, t, r) ==
  /\ ev = Idle
  /\ status[c] = "open"
  /\ LET id == generateId(t, r)
         client == [id |-> id, role |-> Field(msg, "role"),
                    name |-> OrElse(Field(msg, "name"), "Unknown"), ws |-> c]
         after == MapSet(clients, id, client)
     IN /\ clientId' = [clientId EXCEPT ![c] = id]
        /\ clients' = after
        /\ sent' = <<Send(c, [type |-> "registered", id |-> id])>>
                     \o MonitorFanOut(after, id, Field(msg, "role"))
                     \o CameraFanOut(after, c, Field(msg, "role"))
  /\ ev' = Event("register", c, msg)
  /\ declared' = [declared EXCEPT ![c] = Field(msg, "role")]
  /\ UNCHANGED status
  /\ scen' = Track(scen, ev', clientId')
  /\ requested' = Tally(requested, sent')

\* variant: a hit is sent on the channel of the Map's first entry, not the target's
Forward_OnFirstChannel(m, targetId, obj) ==
  IF MapHas(m, targetId) THEN <<Send(m[1].value.ws, obj)>> ELSE <<>>

\* variant: a miss is sent to every registered client instead of being dropped
Forward_BroadcastOnMiss(m, targetId, obj) ==
  IF MapHas(m, targetId)
  THEN <<Send(MapGet(m, targetId).ws, obj)>>
  ELSE [i \in 1..Len(m) |-> Send(m[i].value.ws, obj)]

\* the lookup-and-forward shared by the three routing cases: one send if the target exists
Forward(m, targetId, obj) ==
  LET target == MapGet(m, targetId)
  IN IF MapHas(m, targetId) THEN <<Send(target.ws, obj)>> ELSE <<>>

\* variant: an offer also stores its fromId as the connection's clientId
Offer_AdoptsFromId(c, msg) ==
  /\ ev = Idle
  /\ status[c] = "open"
  /\ sent' = Forward(clients, Field(msg, "targetId"),
                     [type |-> "offer", offer |-> Field(msg, "offer"),
                      fromId |-> Field(msg, "fromId"), cameraName |-> Field(msg, "cameraName")])
  /\ ev' = Event("offer", c, msg)
  /\ clientId' = [clientId EXCEPT ![c] = Field(msg, "fromId")]
  /\ UNCHANGED <<status, clients, declared>>
  /\ scen' = Track(scen, ev', clientId')
  /\ requested' = Tally(requested, sent')

\* case "offer"
Offer(c, msg) ==
  /\ ev = Idle
  /\ status[c] = "open"
  /\ sent' = Forward(clients, Field(msg, "targetId"),
                     [type |-> "offer", offer |-> Field(msg, "offer"),
                      fromId |-> Field(msg, "fromId"), cameraName |-> Field(msg, "cameraName")])
  /\ ev' = Event("offer", c, msg)
  /\ UNCHANGED declared
  /\ UNCHANGED <<status, clientId, clients>>
  /\ scen' = Track(scen, ev', clientId')
  /\ requested' = Tally(requested, sent')

\* variant: an answer that finds its target also removes the target's entry
Answer_ConsumesTarget(c, msg) ==
  /\ ev = Idle
  /\ status[c] = "open"
  /\ sent' = Forward(clients, Field(msg, "targetId"),
                     [type |-> "answer", answer |-> Field(msg, "answer"),
                      fromId |-> Field(msg, "fromId")])
  /\ ev' = Event("answer", c, msg)
  /\ clients' = MapDelete(clients, Field(msg, "targetId"))
  /\ UNCHANGED declared
  /\ UNCHANGED <<status, clientId>>
  /\ scen' = Track(scen, ev', clientId')
  /\ requested' = Tally(requested, sent')

\* case "answer"
Answer(c, msg) ==
  /\ ev = Idle
  /\ status[c] = "open"
  /\ sent' = Forward(clients, Field(msg, "targetId"),
                     [type |-> "answer", answer |-> Field(msg, "answer"),
                      fromId |-> Field(msg, "fromId")])
  /\ ev' = Event("answer", c, msg)
  /\ UNCHANGED declared
  /\ UNCHANGED <<status, clientId, clients>>
  /\ scen' = Track(scen, ev', clientId')
  /\ requested' = Tally(requested, sent')

\* case "ice-candidate"
IceCandidate(c, msg) ==
  /\ ev = Idle
  /\ status[c] = "open"
  /\ sent' = Forward(clients, Field(msg, "targetId"),
                     [type |-> "ice-candidate", candidate |-> Field(msg, "candidate"),
                      fromId |-> Field(msg, "fromId")])
  /\ ev' = Event("ice-candidate", c, msg)
  /\ UNCHANGED declared
  /\ UNCHANGED <<status, clientId, clients>>
  /\ scen' = Track(scen, ev', clientId')
  /\ requested' = Tally(requested, sent')

\* variant: a message no case matches is echoed to its sender
Other_EchoesToSender(c, msg) ==
  /\ ev = Idle
  /\ status[c] = "open"
  /\ sent' = <<Send(c, msg)>>
  /\ ev' = Event("other", c, msg)
  /\ UNCHANGED declared
  /\ UNCHANGED <<status, clientId, clients>>
  /\ scen' = Track(scen, ev', clientId')
  /\ requested' = Tally(requested, sent')

\* a message no case matches: the switch falls through
Other(c, msg) ==
  /\ ev = Idle
  /\ status[c] = "open"
  /\ sent' = <<>>
  /\ ev' = Event("other", c, msg)
  /\ UNCHANGED declared
  /\ UNCHANGED <<status, clientId, clients>>
  /\ scen' = Track(scen, ev', clientId')
  /\ requested' = Tally(requested, sent')

\* variant: the catch terminates the socket of the frame it could not parse
Malformed_ClosesSocket(c, frame) ==
  /\ ev = Idle
  /\ status[c] = "open"
  /\ sent' = <<>>
  /\ ev' = Event("malformed", c, [raw |-> frame])
  /\ status' = [status EXCEPT ![c] = "closed"]
  /\ UNCHANGED declared
  /\ UNCHANGED <<clientId, clients>>
  /\ scen' = Track(scen, ev', clientId')
  /\ requested' = Tally(requested, sent')

\* variant: the catch answers the sender with an error message
Malformed_RepliesError(c, frame) ==
  /\ ev = Idle
  /\ status[c] = "open"
  /\ sent' = <<Send(c, [type |-> "error", message |-> "Invalid message"])>>
  /\ ev' = Event("malformed", c, [raw |-> frame])
  /\ UNCHANGED declared
  /\ UNCHANGED <<status, clientId, clients>>
  /\ scen' = Track(scen, ev', clientId')
  /\ requested' = Tally(requested, sent')

\* JSON.parse or msg.type throws: the catch logs and the handler returns
Malformed(c, frame) ==
  /\ ev = Idle
  /\ status[c] = "open"
  /\ sent' = <<>>
  /\ ev' = Event("malformed", c, [raw |-> frame])
  /\ UNCHANGED declared
  /\ UNCHANGED <<status, clientId, clients>>
  /\ scen' = Track(scen, ev', clientId')
  /\ requested' = Tally(requested, sent')

\* the notifications of a closing connection, from the Map before the delete
CloseFanOut(m, id) ==
  LET client == MapGet(m, id)
      monitors == getMonitors(m)
      cameras == getCameras(m)
  IN (IF client.role = "camera"
      THEN [i \in 1..Len(monitors) |->
              Send(monitors[i].ws, [type |-> "camera-disconnected", cameraId |-> id])]
      ELSE <<>>)
     \o
     (IF client.role = "monitor"
      THEN [i \in 1..Len(cameras) |->
              Send(cameras[i].ws, [type |-> "monitor-disconnected", monitorId |-> id])]
      ELSE <<>>)

\* ws.on("close")
Close(c) ==
  /\ ev = Idle
  /\ status[c] = "open"
  /\ status' = [status EXCEPT ![c] = "closed"]
  /\ IF clientId[c] # Null /\ MapHas(clients, clientId[c])
     THEN /\ sent' = CloseFanOut(clients, clientId[c])
          /\ clients' = MapDelete(clients, clientId[c])
     ELSE /\ sent' = <<>>
          /\ clients' = clients
  /\ ev' = Event("close", c, NoMsg)
  /\ UNCHANGED declared
  /\ UNCHANGED clientId
  /\ scen' = Track(scen, ev', clientId')
  /\ requested' = Tally(requested, sent')

\* the handler returns: the event loop is free to dispatch the next event.  After a
\* close no handler of that socket runs again, so the closure's clientId is garbage
\* and is dropped with it
Return ==
  /\ ev # Idle
  /\ ev' = Idle
  /\ sent' = <<>>
  /\ scen' = IF scen.stage = 4 THEN NoScen ELSE scen
  /\ IF ev.op = "close"
     THEN /\ clientId' = [clientId EXCEPT ![ev.conn] = Null]
          /\ declared' = [declared EXCEPT ![ev.conn] = NotRegistered]
     ELSE UNCHANGED <<clientId, declared>>
  /\ UNCHANGED <<status, clients, requested>>

Next ==
  \/ \E c \in Conns : Connection(c)
  \/ \E c \in Conns, msg \in RegisterMsgs, d \in Draws : Register(c, msg, d.now, d.random)
  \/ \E c \in Conns, msg \in OfferMsgs : Offer(c, msg)
  \/ \E c \in Conns, msg \in AnswerMsgs : Answer(c, msg)
  \/ \E c \in Conns, msg \in IceMsgs : IceCandidate(c, msg)
  \/ \E c \in Conns, msg \in OtherMsgs : Other(c, msg)
  \/ \E c \in Conns, frame \in BadFrames : Malformed(c, frame)
  \/ \E c \in Conns : Close(c)
  \/ Return

Spec == Init /\ [][Next]_vars

\* the same server with the request-offers of one pair (channel, monitorId) tallied
SpecTally == InitTally /\ [][Next]_vars

(* ------------------------- reading the sends --------------------------- *)
OfType(s, ty) == SelectSeq(s, LAMBDA x : x.data.type = ty)

SentTo(s, w) == SelectSeq(s, LAMBDA x : x.to = w)

OwnedBy(cs, w) == SelectSeq(cs, LAMBDA cl : cl.ws = w)

WithId(cs, id) == SelectSeq(cs, LAMBDA cl : cl.id = id)

RoutingOps == {"offer", "answer", "ice-candidate"}

PayloadField(ty) == IF ty = "offer" THEN "offer" ELSE IF ty = "answer" THEN "answer" ELSE "candidate"

\* the handler that just ran was a register of the given role
Registered(role) == ev.op = "register" /\ Field(ev.msg, "role") = role

\* the handler that just ran was the close of a connection whose latest register declared the role
Closed(role) == ev.op = "close" /\ declared[ev.conn] = role

(* ------------------------------- claims -------------------------------- *)

\* C1: an id is a key of the clients Map if and only if the connection that was assigned
\* it has registered and has not yet closed: every entry's connection is open, and every
\* open connection that holds an id has an entry under it.
C1_RegistryIffRegisteredAndOpen ==
  /\ \A i \in 1..Len(clients) : status[clients[i].value.ws] = "open"
  /\ \A c \in Conns :
       (status[c] = "open" /\ clientId[c] # Null) => MapHas(clients, clientId[c])

\* C2: every register is assigned an id that is not a key of the Map at that moment, so
\* the insertion adds an entry and overwrites none.
C2_RegisterIdIsFresh ==
  ev.op = "register" =>
    /\ ~ MapHas(ev.before, clientId[ev.conn])
    /\ Len(clients) = Len(ev.before) + 1

\* C3: a register with role monitor while N cameras are registered sends exactly N
\* request-offer messages, one on the channel of each registered camera, each carrying
\* the id just assigned, and no request-offer on any other channel.
C3_MonitorRegisterRequestsEveryCamera ==
  Registered("monitor") =>
    LET cameras == getCameras(ev.before)
        requests == OfType(sent, "request-offer")
    IN /\ Len(requests) = Len(cameras)
       /\ \A w \in Conns : Len(SentTo(requests, w)) = Len(OwnedBy(cameras, w))
       /\ \A i \in 1..Len(requests) :
            requests[i].data = [type |-> "request-offer", monitorId |-> clientId[ev.conn]]

\* C4: a register with role camera while M monitors are registered sends exactly M
\* request-offer messages, all on the registering connection's own channel, one per
\* registered monitor with that monitor's id, and sends nothing on a monitor's channel.
C4_CameraRegisterIsAskedPerMonitor ==
  Registered("camera") =>
    LET monitors == getMonitors(ev.before)
        requests == OfType(sent, "request-offer")
    IN /\ Len(requests) = Len(monitors)
       /\ \A i \in 1..Len(requests) :
            /\ requests[i].to = ev.conn
            /\ DOMAIN requests[i].data = {"type", "monitorId"}
       /\ \A id \in Ids :
            Len(SelectSeq(requests, LAMBDA x : x.data.monitorId = id)) = Len(WithId(monitors, id))
       /\ \A i \in 1..Len(sent), j \in 1..Len(monitors) : sent[i].to # monitors[j].ws

\* C5: an offer, answer or ice-candidate whose targetId is a key of the Map produces
\* exactly one send, on the channel of the entry under targetId, with the same type, the
\* same payload (and cameraName for an offer) and the same fromId, and no targetId.
C5_RoutingHitForwardsOnce ==
  (ev.op \in RoutingOps /\ MapHas(ev.before, Field(ev.msg, "targetId"))) =>
    /\ Len(sent) = 1
    /\ sent[1].to = MapGet(ev.before, Field(ev.msg, "targetId")).ws
    /\ LET out == sent[1].data
           pf == PayloadField(ev.op)
       IN /\ Field(out, "type") = ev.op
          /\ Field(out, pf) = Field(ev.msg, pf)
          /\ Field(out, "fromId") = Field(ev.msg, "fromId")
          /\ ev.op = "offer" => Field(out, "cameraName") = Field(ev.msg, "cameraName")
          /\ "targetId" \notin DOMAIN out
          /\ DOMAIN out \subseteq {"type", pf, "fromId", "cameraName"}

C5_Witness ==
  /\ ev.op = "offer"
  /\ MapHas(ev.before, Field(ev.msg, "targetId"))
  /\ Len(ev.before) = 2
  /\ "cameraName" \in DOMAIN ev.msg
  /\ Len(sent) = 1
  /\ sent[1].to # ev.conn

\* C6: an offer, answer or ice-candidate whose targetId is not a key of the Map sends
\* nothing on any channel, the sender's included, and leaves the sender's connection open.
C6_RoutingMissIsSilent ==
  (ev.op \in RoutingOps /\ ~ MapHas(ev.before, Field(ev.msg, "targetId"))) =>
    /\ sent = <<>>
    /\ status[ev.conn] = "open"

C6_Witness ==
  /\ ev.op = "answer"
  /\ Field(ev.msg, "targetId") \in Ids
  /\ ~ MapHas(ev.before, Field(ev.msg, "targetId"))
  /\ Len(ev.before) > 0
  /\ sent = <<>>

\* C7: when the connection of a registered camera closes while K monitors are
\* registered, exactly K camera-disconnected messages are sent, one on the channel of
\* each registered monitor, each carrying the camera's id, and afterwards that id is not
\* a key of the Map.
C7_CameraCloseNotifiesEveryMonitor ==
  Closed("camera") =>
    LET monitors == getMonitors(ev.before)
    IN /\ Len(sent) = Len(monitors)
       /\ \A w \in Conns : Len(SentTo(sent, w)) = Len(OwnedBy(monitors, w))
       /\ \A i \in 1..Len(sent) :
            sent[i].data = [type |-> "camera-disconnected", cameraId |-> clientId[ev.conn]]
       /\ ~ MapHas(clients, clientId[ev.conn])

\* C8: when the connection of a registered monitor closes, monitor-disconnected with the
\* monitor's id is sent exactly once for every registered camera, on that camera's
\* channel, and nothing else is sent (nothing is addressed to a monitor); afterwards
\* that id is not a key of the Map.
C8_MonitorCloseNotifiesEveryCamera ==
  Closed("monitor") =>
    LET cameras == getCameras(ev.before)
    IN /\ Len(sent) = Len(cameras)
       /\ \A w \in Conns : Len(SentTo(sent, w)) = Len(OwnedBy(cameras, w))
       /\ \A i \in 1..Len(sent) :
            sent[i].data = [type |-> "monitor-disconnected", monitorId |-> clientId[ev.conn]]
       /\ ~ MapHas(clients, clientId[ev.conn])

\* C9: the close of a connection that never sent a register sends nothing and leaves
\* the Map as it was, whatever else the connection sent before.
C9_UnregisteredCloseIsSilent ==
  (ev.op = "close" /\ declared[ev.conn] = NotRegistered) =>
    /\ sent = <<>>
    /\ clients = ev.before

C9_Witness ==
  /\ ev.op = "close"
  /\ declared[ev.conn] = NotRegistered
  /\ Len(ev.before) = 2
  /\ \E i, j \in 1..2 : IsCamera(ev.before[i].value) /\ IsMonitor(ev.before[j].value)
  /\ sent = <<>>
  /\ clients = ev.before

C11_ReRegistrationAddsAndCloseRemovesLatest ==
  /\ (ev.op = "register" /\ ev.was[ev.conn] # Null) =>
       /\ clientId[ev.conn] # ev.was[ev.conn]
       /\ ~ MapHas(ev.before, clientId[ev.conn])
       /\ Len(clients) = Len(ev.before) + 1
       /\ \A i \in 1..Len(ev.before) : clients[i] = ev.before[i]
       /\ clients[Len(clients)].value.ws = ev.conn
  /\ (ev.op = "close" /\ ev.was[ev.conn] # Null) =>
       /\ MapHas(ev.before, clientId[ev.conn])
       /\ clients = MapDelete(ev.before, clientId[ev.conn])
       /\ \A i \in 1..Len(sent) :
            clientId[ev.conn] \in {Field(sent[i].data, "cameraId"), Field(sent[i].data, "monitorId")}

\* C12: a frame that fails to parse sends nothing on any channel and leaves the Map,
\* every connection's clientId and the sender's connection, which stays open, as the
\* handler found them, so the next frame on that connection finds the state it would have
\* found without it.
C12_MalformedFrameChangesNothing ==
  ev.op = "malformed" =>
    /\ sent = <<>>
    /\ clients = ev.before
    /\ clientId = ev.was
    /\ status[ev.conn] = "open"

C12_Witness ==
  /\ ev.op = "malformed"
  /\ ev.msg.raw = "{oops"
  /\ ev.was[ev.conn] # Null
  /\ Len(ev.before) = 2
  /\ sent = <<>>
  /\ status[ev.conn] = "open"

\* C13: every entry of the Map has role camera or monitor: a register whose role is
\* anything else leaves no entry.
C13_EveryEntryIsCameraOrMonitor ==
  \A i \in 1..Len(clients) : clients[i].value.role \in {"camera", "monitor"}

\* C14: a message whose type is none of register, offer, answer and ice-candidate sends
\* nothing on any channel and leaves the Map, every connection's clientId and the
\* sender's connection, which stays open, unchanged.
C14_UnknownTypeIsNoOp ==
  ev.op = "other" =>
    /\ Field(ev.msg, "type") \notin {"register", "offer", "answer", "ice-candidate"}
    /\ sent = <<>>
    /\ clients = ev.before
    /\ clientId = ev.was
    /\ status[ev.conn] = "open"

C14_Witness ==
  /\ ev.op = "other"
  /\ ev.msg = [type |-> "ping"]
  /\ ev.was[ev.conn] # Null
  /\ Len(ev.before) > 0
  /\ sent = <<>>
  /\ clients = ev.before

ServerTypes ==
  {"registered", "request-offer", "offer", "answer", "ice-candidate",
   "camera-disconnected", "monitor-disconnected"}

\* C15: every message the server sends, whatever the event, has one of the types
\* registered, request-offer, offer, answer, ice-candidate, camera-disconnected and
\* monitor-disconnected: no error or negative acknowledgement is ever sent.
C15_OnlyProtocolTypesAreSent ==
  \A i \in 1..Len(sent) : Field(sent[i].data, "type") \in ServerTypes

C15_Witness ==
  /\ ev.op = "close"
  /\ Len(sent) = 1
  /\ sent[1].data.type = "camera-disconnected"
  /\ sent[1].to # ev.conn

\* C16: on every register the first send is registered{id} on the registering
\* connection's channel, the entry under that id is in the Map, and every other send of
\* the handler is a request-offer that comes after it.
C16_RegisteredPrecedesRequestOffers ==
  ev.op = "register" =>
    /\ Len(sent) >= 1
    /\ sent[1] = [to |-> ev.conn, data |-> [type |-> "registered", id |-> clientId[ev.conn]]]
    /\ \A i \in 2..Len(sent) : sent[i].data.type = "request-offer"
    /\ MapHas(clients, clientId[ev.conn])
    /\ MapGet(clients, clientId[ev.conn]).ws = ev.conn

C16_Witness ==
  /\ Registered("camera")
  /\ Len(sent) = 2
  /\ sent[1].data.type = "registered"
  /\ sent[2].data.type = "request-offer"
  /\ sent[2].to = ev.conn

\* C17: whenever a camera entry and a monitor entry are both in the Map, a request-offer
\* carrying the monitor's id has been sent on the camera's channel, whichever of the two
\* registered first (stated for the watched pair, which is any pair).
C17_EveryPairHasBeenRequested ==
  \A i, j \in 1..Len(clients) :
    LET pair == <<clients[i].value.ws, clients[j].value.id>>
    IN (IsCamera(clients[i].value) /\ IsMonitor(clients[j].value) /\ pair \in DOMAIN requested) =>
         requested[pair] # "never"

C17_Witness ==
  /\ Registered("monitor")
  /\ Len(clients) = 2
  /\ IsCamera(clients[1].value)
  /\ IsMonitor(clients[2].value)
  /\ clients[1].value.ws # clients[2].value.ws
  /\ <<clients[1].value.ws, clients[2].value.id>> \in DOMAIN requested
  /\ requested[<<clients[1].value.ws, clients[2].value.id>>] = "once"

\* C18: no handler sends on the channel of a connection that an earlier close event
\* closed: every forward, request-offer and disconnect notification goes to a connection
\* that is open (the connection whose close is being handled aside).
C18_NoSendOnClosedChannel ==
  \A i \in 1..Len(sent) :
    \/ status[sent[i].to] = "open"
    \/ ev.op = "close" /\ sent[i].to = ev.conn

\* C19: over any sequence of events, no channel is sent request-offer with the same
\* monitorId more than once (stated for the watched pair, which is any pair).
C19_AtMostOneRequestPerPair ==
  \A p \in DOMAIN requested : requested[p] # "more"

\* C20: an offer, answer or ice-candidate, forwarded or not, from a registered sender or
\* not, leaves the Map (its keys in order and every entry's id, role, name and channel)
\* and every connection's clientId as the handler found them.
C20_RoutingLeavesRegistryAlone ==
  ev.op \in RoutingOps =>
    /\ clients = ev.before
    /\ clientId = ev.was

C20_Witness ==
  /\ ev.op = "answer"
  /\ ev.was[ev.conn] = Null
  /\ MapHas(ev.before, Field(ev.msg, "targetId"))
  /\ Len(sent) = 1
  /\ clients = ev.before
  /\ MapHas(clients, Field(ev.msg, "targetId"))
====
